---- MODULE Spec2Model ----
(***************************************************************************)
(* The image-proxy cache of torrust-index-backend:                         *)
(* src/src/cache/image/manager.rs (ImageCacheQuota, ImageCacheService).    *)
(* Requests run concurrently; every step of a request is one critical      *)
(* section of one tokio RwLock (or the outbound HTTP exchange).            *)
(***************************************************************************)
EXTENDS Integers, Sequences, FiniteSets, TLC

\* ------------------------------------------------------------------ bounds

\* Wall clock (now_in_secs) runs from 0 to MaxTime.
MaxTime == 3
\* Total number of outbound GETs issued in one run.
MaxFetches == 3
\* Number of add_usage calls made on the directly driven quota (QuotaSpec).
MaxCalls == 4

\* ------------------------------------------------------------- input sets

\* The tasks that may run a request; Spec runs two of them concurrently.
AllProcs == {"p1", "p2", "p3"}
Procs == {"p1", "p2"}
UserIds == {1}
AllUserIds == {1, 2}
Urls == {"a", "b"}
\* Lengths of the payloads a remote server may answer with.
Sizes == {400, 600, 700}

\* Option<T>: None is the empty sequence, Some(x) the one-element sequence.
None == <<>>
Some(x) == <<x>>
Unwrap(o) == o[1]

\* usize::MAX, scaled to the integer range of the model checker.
USIZE_MAX == 2147483647

\* Settings at start-up, and the settings an administrator may switch to.
StartSettings ==
    [capacity |-> 1000, entry_size_limit |-> 600, max_request_timeout_ms |-> 1000,
     user_quota_bytes |-> 1000, user_quota_period_seconds |-> 2]
OtherSettings ==
    [capacity |-> 2000, entry_size_limit |-> 700, max_request_timeout_ms |-> 500,
     user_quota_bytes |-> 400, user_quota_period_seconds |-> 1]
SettingsChoices == {StartSettings, OtherSettings}

\* What the remote server does with one GET.
Responses ==
    [reachable : {FALSE}, content_type : {None}, body : {None}]
    \cup [reachable : {TRUE},
          content_type : {None, Some("image/jpeg"), Some("image/png"), Some("text/html")},
          body : {None} \cup {Some(n) : n \in Sizes}]

VARIABLES
    image_cache,   \* BytesCache behind its RwLock
    user_quotas,   \* HashMap<i64, ImageCacheQuota> behind its RwLock
    settings,      \* cfg.settings behind its RwLock
    reqwest_client,\* the HTTP client built by ImageCacheService::new
    settings_writer,\* the settings an administrator waits to store, queued for the write lock
    now,           \* SystemTime::now() in seconds
    fetches,       \* outbound GETs issued so far
    pc,            \* position of each request
    url,           \* argument url
    opt_user,      \* argument opt_user
    image_bytes,   \* local image_bytes
    quota,         \* local quota of update_user_quota
    charge,        \* outcome of quota.add_usage in update_user_quota
    sent,          \* outbound GETs issued by the current request
    result,        \* what get_image_by_url returned
    obj,           \* one ImageCacheQuota value driven directly (QuotaSpec)
    calls          \* the add_usage calls made on obj, in order

vars == <<image_cache, user_quotas, settings, reqwest_client, settings_writer, now,
          fetches, pc, url, opt_user, image_bytes, quota, charge, sent, result, obj, calls>>
shared == <<image_cache, user_quotas, settings, reqwest_client, settings_writer, now>>
direct == <<obj, calls>>

\* ------------------------------------------------------- ImageCacheQuota

ImageCacheQuota_new(max_usage, period_secs, t) ==
    [usage |-> 0, max_usage |-> max_usage, date_start_secs |-> t,
     period_secs |-> period_secs]

\* Variant: reached only above the budget (> for >=).
is_reached_above(q) == q.usage > q.max_usage

is_reached(q) == q.usage >= q.max_usage

reset(q, t) == [q EXCEPT !.usage = 0, !.date_start_secs = t]

saturating_add(a, b) == IF a > USIZE_MAX - b THEN USIZE_MAX ELSE a + b

\* Variant: a charge that would pass max_usage is refused.
add_usage_strict(q, amount, t) ==
    LET q1 == IF t - q.date_start_secs > q.period_secs THEN reset(q, t) ELSE q
    IN  IF is_reached(q1) \/ q1.usage + amount > q1.max_usage
        THEN [quota |-> q1, res |-> "Err"]
        ELSE [quota |-> [q1 EXCEPT !.usage = saturating_add(@, amount)], res |-> "Ok"]

\* Variant: the window is taken as expired already when now - start = period.
add_usage_early_reset(q, amount, t) ==
    LET q1 == IF t - q.date_start_secs >= q.period_secs THEN reset(q, t) ELSE q
    IN  IF is_reached(q1)
        THEN [quota |-> q1, res |-> "Err"]
        ELSE [quota |-> [q1 EXCEPT !.usage = saturating_add(@, amount)], res |-> "Ok"]

\* Variant: the charge is applied without asking is_reached first.
add_usage_unchecked(q, amount, t) ==
    LET q1 == IF t - q.date_start_secs > q.period_secs THEN reset(q, t) ELSE q
    IN  [quota |-> [q1 EXCEPT !.usage = saturating_add(@, amount)], res |-> "Ok"]

\* The quota after add_usage(amount) at time t, and the Result it returns.
add_usage(q, amount, t) ==
    LET q1 == IF t - q.date_start_secs > q.period_secs THEN reset(q, t) ELSE q
    IN  IF is_reached(q1)
        THEN [quota |-> q1, res |-> "Err"]
        ELSE [quota |-> [q1 EXCEPT !.usage = saturating_add(@, amount)], res |-> "Ok"]

\* ------------------------------------------------------------ BytesCache

RECURSIVE SumLen(_)
SumLen(es) == IF es = <<>> THEN 0 ELSE Head(es).bytes + SumLen(Tail(es))

total_size(c) == SumLen(c.entries)

with_capacity_and_entry_size_limit(capacity, entry_size_limit) ==
    [entries |-> <<>>, total_capacity |-> capacity, entry_size_limit |-> entry_size_limit]

\* lookup: the payload stored under key, if any.
cache_get(c, key) ==
    LET hits == {i \in 1..Len(c.entries) : c.entries[i].key = key}
    IN  IF hits = {} THEN None ELSE Some(c.entries[CHOOSE i \in hits : TRUE].bytes)

\* Variant: the newest entries are evicted first.
RECURSIVE free_size_newest(_, _, _)
free_size_newest(es, size, capacity) ==
    IF es # <<>> /\ SumLen(es) + size > capacity
    THEN free_size_newest(SubSeq(es, 1, Len(es) - 1), size, capacity)
    ELSE es

RECURSIVE free_size(_, _, _)
free_size(es, size, capacity) ==
    IF es # <<>> /\ SumLen(es) + size > capacity
    THEN free_size(Tail(es), size, capacity)
    ELSE es

\* Variant: the new entry is appended without removing the entry already
\* stored under the key.
cache_set_appended(c, key, bytes) ==
    IF bytes > c.entry_size_limit \/ bytes > c.total_capacity
    THEN [cache |-> c, ok |-> FALSE]
    ELSE LET kept == free_size(c.entries, bytes, c.total_capacity)
         IN  [cache |-> [c EXCEPT !.entries = Append(kept, [key |-> key, bytes |-> bytes])],
              ok |-> TRUE]

\* Variant: room is made before the size of the payload is tested.
cache_set_evict_first(c, key, bytes) ==
    LET rest == SelectSeq(c.entries, LAMBDA e : e.key # key)
        kept == free_size(rest, bytes, c.total_capacity)
    IN  IF bytes > c.entry_size_limit \/ bytes > c.total_capacity
        THEN [cache |-> [c EXCEPT !.entries = kept], ok |-> FALSE]
        ELSE [cache |-> [c EXCEPT !.entries = Append(kept, [key |-> key, bytes |-> bytes])],
              ok |-> TRUE]

\* insert: the cache after set(key, bytes), and whether it succeeded.
cache_set(c, key, bytes) ==
    IF bytes > c.entry_size_limit \/ bytes > c.total_capacity
    THEN [cache |-> c, ok |-> FALSE]
    ELSE LET rest == SelectSeq(c.entries, LAMBDA e : e.key # key)
             kept == free_size(rest, bytes, c.total_capacity)
         IN  [cache |-> [c EXCEPT !.entries = Append(kept, [key |-> key, bytes |-> bytes])],
              ok |-> TRUE]

\* ----------------------------------------------------- ImageCacheService

\* Result<Bytes, Error>, with the function whose return statement produced it.
NoResult == [kind |-> "None", bytes |-> None, at |-> "None"]
Ok(b) == [kind |-> "Ok", bytes |-> Some(b)]
Err(e) == [kind |-> e, bytes |-> None]

\* ImageCacheService::new under settings s, and no request running.
new(s) ==
    /\ settings = s
    /\ image_cache = with_capacity_and_entry_size_limit(s.capacity, s.entry_size_limit)
    /\ reqwest_client = [timeout_ms |-> s.max_request_timeout_ms]
    /\ settings_writer = None
    /\ user_quotas = [u \in AllUserIds |-> None]
    /\ now = 0
    /\ fetches = 0
    /\ pc = [p \in AllProcs |-> "idle"]
    /\ url = [p \in AllProcs |-> None]
    /\ opt_user = [p \in AllProcs |-> None]
    /\ image_bytes = [p \in AllProcs |-> None]
    /\ quota = [p \in AllProcs |-> None]
    /\ charge = [p \in AllProcs |-> "None"]
    /\ sent = [p \in AllProcs |-> 0]
    /\ result = [p \in AllProcs |-> NoResult]

Init ==
    /\ new(StartSettings)
    /\ obj = None
    /\ calls = <<>>

\* get_image_by_url returns r.
Return(p, r) ==
    /\ pc' = [pc EXCEPT ![p] = "done"]
    /\ result' = [result EXCEPT ![p] = [kind |-> r.kind, bytes |-> r.bytes, at |-> pc[p]]]
    /\ image_bytes' = [image_bytes EXCEPT ![p] = None]
    /\ quota' = [quota EXCEPT ![p] = None]

\* Variant: on a miss the outbound GET is issued before the authorization gate.
get_image_by_url_get_first(p, u, user) ==
    /\ pc[p] = "idle"
    /\ url' = [url EXCEPT ![p] = Some(u)]
    /\ opt_user' = [opt_user EXCEPT ![p] = user]
    /\ LET entry == cache_get(image_cache, u)
       IN  IF entry # None
           THEN /\ Return(p, Ok(Unwrap(entry)))
                /\ UNCHANGED <<fetches, sent>>
           ELSE IF user = None
                THEN /\ Return(p, Err("Unauthenticated"))
                     /\ fetches' = IF fetches < MaxFetches THEN fetches + 1 ELSE fetches
                     /\ sent' = [sent EXCEPT ![p] = IF fetches < MaxFetches THEN 1 ELSE 0]
                ELSE /\ pc' = [pc EXCEPT ![p] = "check_user_quota"]
                     /\ UNCHANGED <<result, image_bytes, quota, fetches, sent>>
    /\ UNCHANGED <<shared, direct, charge>>

\* Variant: the authorization gate comes before the cache probe.
get_image_by_url_gate_first(p, u, user) ==
    /\ pc[p] = "idle"
    /\ url' = [url EXCEPT ![p] = Some(u)]
    /\ opt_user' = [opt_user EXCEPT ![p] = user]
    /\ LET entry == cache_get(image_cache, u)
       IN  IF user = None
           THEN Return(p, Err("Unauthenticated"))
           ELSE IF entry # None
                THEN Return(p, Ok(Unwrap(entry)))
                ELSE /\ pc' = [pc EXCEPT ![p] = "check_user_quota"]
                     /\ UNCHANGED <<result, image_bytes, quota>>
    /\ UNCHANGED <<shared, direct, fetches, charge, sent>>

\* Lines 106-113: the cache probe and the authorization gate.
get_image_by_url(p, u, user) ==
    /\ pc[p] = "idle"
    /\ url' = [url EXCEPT ![p] = Some(u)]
    /\ opt_user' = [opt_user EXCEPT ![p] = user]
    /\ LET entry == cache_get(image_cache, u)
       IN  IF entry # None
           THEN Return(p, Ok(Unwrap(entry)))
           ELSE IF user = None
                THEN Return(p, Err("Unauthenticated"))
                ELSE /\ pc' = [pc EXCEPT ![p] = "check_user_quota"]
                     /\ UNCHANGED <<result, image_bytes, quota>>
    /\ UNCHANGED <<shared, direct, fetches, charge, sent>>

\* Variant: the pre-check rejects only above the budget (> for >=).
check_user_quota_above(p) ==
    /\ pc[p] = "check_user_quota"
    /\ LET q == user_quotas[Unwrap(opt_user[p])]
       IN  IF q # None /\ Unwrap(q).usage > Unwrap(q).max_usage
           THEN Return(p, Err("UserQuotaMet"))
           ELSE /\ pc' = [pc EXCEPT ![p] = "get_image_from_url_as_bytes"]
                /\ UNCHANGED <<result, image_bytes, quota>>
    /\ UNCHANGED <<shared, direct, fetches, url, opt_user, charge, sent>>

\* Variant: the pre-check stores a fresh record for a user who has none.
check_user_quota_creating(p) ==
    /\ pc[p] = "check_user_quota"
    /\ LET q == user_quotas[Unwrap(opt_user[p])]
       IN  /\ user_quotas' =
                  IF q # None THEN user_quotas
                  ELSE [user_quotas EXCEPT ![Unwrap(opt_user[p])] =
                           Some(ImageCacheQuota_new(settings.user_quota_bytes,
                                                    settings.user_quota_period_seconds, now))]
           /\ IF q # None /\ is_reached(Unwrap(q))
              THEN Return(p, Err("UserQuotaMet"))
              ELSE /\ pc' = [pc EXCEPT ![p] = "get_image_from_url_as_bytes"]
                   /\ UNCHANGED <<result, image_bytes, quota>>
    /\ UNCHANGED <<image_cache, settings, reqwest_client, settings_writer, now, direct,
                   fetches, url, opt_user, charge, sent>>

\* Lines 155-163.
check_user_quota(p) ==
    /\ pc[p] = "check_user_quota"
    /\ LET q == user_quotas[Unwrap(opt_user[p])]
       IN  IF q # None /\ is_reached(Unwrap(q))
           THEN Return(p, Err("UserQuotaMet"))
           ELSE /\ pc' = [pc EXCEPT ![p] = "get_image_from_url_as_bytes"]
                /\ UNCHANGED <<result, image_bytes, quota>>
    /\ UNCHANGED <<shared, direct, fetches, url, opt_user, charge, sent>>

\* Lines 135-153: what get_image_from_url_as_bytes makes of the response.
response_bytes(res) ==
    IF ~res.reachable THEN Err("UrlIsUnreachable")
    ELSE IF res.content_type = None THEN Err("UrlIsNotAnImage")
    ELSE IF Unwrap(res.content_type) # "image/jpeg" /\ Unwrap(res.content_type) # "image/png"
         THEN Err("UrlIsNotAnImage")
    ELSE IF res.body = None THEN Err("UrlIsNotAnImage")
    ELSE Ok(Unwrap(res.body))

\* Variant: an unreachable url is tried again.
get_image_from_url_as_bytes_retry(p, res) ==
    /\ pc[p] = "get_image_from_url_as_bytes"
    /\ fetches < MaxFetches
    /\ fetches' = fetches + 1
    /\ sent' = [sent EXCEPT ![p] = @ + 1]
    /\ LET r == response_bytes(res)
       IN  IF r.kind = "UrlIsUnreachable" /\ sent[p] = 0
           THEN UNCHANGED <<pc, result, image_bytes, quota>>
           ELSE IF r.kind # "Ok"
           THEN Return(p, r)
           ELSE /\ pc' = [pc EXCEPT ![p] = "check_image_size"]
                /\ image_bytes' = [image_bytes EXCEPT ![p] = r.bytes]
                /\ UNCHANGED <<result, quota>>
    /\ UNCHANGED <<shared, direct, url, opt_user, charge>>

get_image_from_url_as_bytes(p, res) ==
    /\ pc[p] = "get_image_from_url_as_bytes"
    /\ fetches < MaxFetches
    /\ fetches' = fetches + 1
    /\ sent' = [sent EXCEPT ![p] = @ + 1]
    /\ LET r == response_bytes(res)
       IN  IF r.kind # "Ok"
           THEN Return(p, r)
           ELSE /\ pc' = [pc EXCEPT ![p] = "check_image_size"]
                /\ image_bytes' = [image_bytes EXCEPT ![p] = r.bytes]
                /\ UNCHANGED <<result, quota>>
    /\ UNCHANGED <<shared, direct, url, opt_user, charge>>

\* Lines 165-173.  The settings read lock (166) is granted when no writer is
\* queued for it.
check_image_size(p) ==
    /\ pc[p] = "check_image_size"
    /\ settings_writer = None
    /\ IF Unwrap(image_bytes[p]) > settings.entry_size_limit
       THEN Return(p, Err("ImageTooBig"))
       ELSE /\ pc' = [pc EXCEPT ![p] = "update_image_cache"]
            /\ UNCHANGED <<result, image_bytes, quota>>
    /\ UNCHANGED <<shared, direct, fetches, url, opt_user, charge, sent>>

\* Variant: a failed cache write is not surfaced; the request goes on to the charge.
update_image_cache_discarded(p) ==
    /\ pc[p] = "update_image_cache"
    /\ image_cache' = cache_set(image_cache, Unwrap(url[p]), Unwrap(image_bytes[p])).cache
    /\ pc' = [pc EXCEPT ![p] = "update_user_quota"]
    /\ UNCHANGED <<result, image_bytes, quota>>
    /\ UNCHANGED <<user_quotas, settings, reqwest_client, settings_writer, now, direct,
                   fetches, url, opt_user, charge, sent>>

\* Variant: the payload is handed on without being written to the cache.
update_image_cache_unstored(p) ==
    /\ pc[p] = "update_image_cache"
    /\ pc' = [pc EXCEPT ![p] = "update_user_quota"]
    /\ UNCHANGED <<result, image_bytes, quota>>
    /\ UNCHANGED <<shared, direct, fetches, url, opt_user, charge, sent>>

\* Lines 175-188, and the `?` of line 128.
update_image_cache(p) ==
    /\ pc[p] = "update_image_cache"
    /\ LET s == cache_set(image_cache, Unwrap(url[p]), Unwrap(image_bytes[p]))
       IN  /\ image_cache' = s.cache
           /\ IF ~s.ok
              THEN Return(p, Err("ImageTooBig"))
              ELSE /\ pc' = [pc EXCEPT ![p] = "update_user_quota"]
                   /\ UNCHANGED <<result, image_bytes, quota>>
    /\ UNCHANGED <<user_quotas, settings, reqwest_client, settings_writer, now, direct,
                   fetches, url, opt_user, charge, sent>>

\* Variant: a stored record takes the live quota size and period on every
\* charge.
charged_quota_live(stored, cfg, amount, t) ==
    LET q == IF stored # None
             THEN [Unwrap(stored) EXCEPT !.max_usage = cfg.user_quota_bytes,
                                         !.period_secs = cfg.user_quota_period_seconds]
             ELSE ImageCacheQuota_new(cfg.user_quota_bytes, cfg.user_quota_period_seconds, t)
    IN  add_usage(q, amount, t)

\* Lines 191-205: the settings read lock is taken, the record is cloned (or
\* created) under the registry's read lock, and the clone is charged.
charged_quota(stored, cfg, amount, t) ==
    LET q == IF stored # None
             THEN Unwrap(stored)
             ELSE ImageCacheQuota_new(cfg.user_quota_bytes, cfg.user_quota_period_seconds, t)
    IN  add_usage(q, amount, t)

update_user_quota(p) ==
    /\ pc[p] = "update_user_quota"
    /\ settings_writer = None
    /\ LET c == charged_quota(user_quotas[Unwrap(opt_user[p])], settings,
                              Unwrap(image_bytes[p]), now)
       IN  /\ quota' = [quota EXCEPT ![p] = Some(c.quota)]
           /\ charge' = [charge EXCEPT ![p] = c.res]
    /\ pc' = [pc EXCEPT ![p] = "insert_user_quota"]
    /\ UNCHANGED <<shared, direct, fetches, url, opt_user, image_bytes, sent, result>>

\* Variant: a successful charge is added to the record found in the registry
\* at insert time.
insert_user_quota_added(p) ==
    /\ pc[p] = "insert_user_quota"
    /\ LET stored == user_quotas[Unwrap(opt_user[p])]
       IN  user_quotas' =
               [user_quotas EXCEPT ![Unwrap(opt_user[p])] =
                    IF stored = None \/ charge[p] = "Err" THEN quota[p]
                    ELSE Some([Unwrap(stored) EXCEPT
                                  !.usage = saturating_add(@, Unwrap(image_bytes[p]))])]
    /\ Return(p, Ok(Unwrap(image_bytes[p])))
    /\ UNCHANGED <<image_cache, settings, reqwest_client, settings_writer, now, direct,
                   fetches, url, opt_user, charge, sent>>

\* Variant: the registry read guard of lines 193-203 is still held by the
\* request when it asks for the write lock, which is granted only when no
\* read guard is held.
insert_user_quota_read_held(p) ==
    /\ pc[p] = "insert_user_quota"
    /\ {r \in AllProcs : pc[r] = "insert_user_quota"} = {}
    /\ user_quotas' = [user_quotas EXCEPT ![Unwrap(opt_user[p])] = quota[p]]
    /\ Return(p, Ok(Unwrap(image_bytes[p])))
    /\ UNCHANGED <<image_cache, settings, reqwest_client, settings_writer, now, direct,
                   fetches, url, opt_user, charge, sent>>

\* Variant: a record whose charge failed is taken out of the registry.
insert_user_quota_dropping(p) ==
    /\ pc[p] = "insert_user_quota"
    /\ user_quotas' = [user_quotas EXCEPT ![Unwrap(opt_user[p])] =
                           IF charge[p] = "Err" THEN None ELSE quota[p]]
    /\ Return(p, Ok(Unwrap(image_bytes[p])))
    /\ UNCHANGED <<image_cache, settings, reqwest_client, settings_writer, now, direct,
                   fetches, url, opt_user, charge, sent>>

\* Lines 207-209 and 130-132: the clone is stored under the registry's write
\* lock, and the payload is returned.
insert_user_quota(p) ==
    /\ pc[p] = "insert_user_quota"
    /\ user_quotas' = [user_quotas EXCEPT ![Unwrap(opt_user[p])] = quota[p]]
    /\ Return(p, Ok(Unwrap(image_bytes[p])))
    /\ UNCHANGED <<image_cache, settings, reqwest_client, settings_writer, now, direct,
                   fetches, url, opt_user, charge, sent>>

\* The caller takes the result; the task is free for the next request.
Complete(p) ==
    /\ pc[p] = "done"
    /\ pc' = [pc EXCEPT ![p] = "idle"]
    /\ url' = [url EXCEPT ![p] = None]
    /\ opt_user' = [opt_user EXCEPT ![p] = None]
    /\ charge' = [charge EXCEPT ![p] = "None"]
    /\ sent' = [sent EXCEPT ![p] = 0]
    /\ result' = [result EXCEPT ![p] = NoResult]
    /\ UNCHANGED <<shared, direct, fetches, image_bytes, quota>>

\* Requests inside update_user_quota hold the settings read lock.
SettingsReaders == {p \in AllProcs : pc[p] = "insert_user_quota"}

\* An administrator stores new settings (needs the settings write lock).
UpdateSettings(s) ==
    /\ SettingsReaders = {}
    /\ s # settings
    /\ settings' = s
    /\ UNCHANGED <<image_cache, user_quotas, reqwest_client, settings_writer, now, direct,
                   fetches, pc, url, opt_user,
                   image_bytes, quota, charge, sent, result>>

\* An administrator asks for the settings write lock to store s, and waits.
RequestSettingsWrite(s) ==
    /\ settings_writer = None
    /\ s # settings
    /\ settings_writer' = Some(s)
    /\ UNCHANGED <<image_cache, user_quotas, settings, reqwest_client, now, direct, fetches,
                   pc, url, opt_user, image_bytes, quota, charge, sent, result>>

\* The write lock is granted once no read guard is held; the settings are
\* stored and the lock is released.
GrantSettingsWrite ==
    /\ settings_writer # None
    /\ SettingsReaders = {}
    /\ settings' = Unwrap(settings_writer)
    /\ settings_writer' = None
    /\ UNCHANGED <<image_cache, user_quotas, reqwest_client, now, direct, fetches, pc, url,
                   opt_user, image_bytes, quota, charge, sent, result>>

\* The caller drops the future of get_image_by_url while it waits for the
\* response (the await of lines 136-142): the GET was sent, nothing else runs.
Abort(p) ==
    /\ pc[p] = "get_image_from_url_as_bytes"
    /\ fetches < MaxFetches
    /\ fetches' = fetches + 1
    /\ pc' = [pc EXCEPT ![p] = "idle"]
    /\ url' = [url EXCEPT ![p] = None]
    /\ opt_user' = [opt_user EXCEPT ![p] = None]
    /\ UNCHANGED <<shared, direct, image_bytes, quota, charge, sent, result>>

\* A second of wall-clock time passes.
Tick ==
    /\ now < MaxTime
    /\ now' = now + 1
    /\ UNCHANGED <<image_cache, user_quotas, settings, reqwest_client, settings_writer,
                   direct, fetches, pc, url, opt_user,
                   image_bytes, quota, charge, sent, result>>

Next ==
    \/ \E p \in Procs, u \in Urls, user \in {None} \cup {Some(i) : i \in UserIds} :
           get_image_by_url(p, u, user)
    \/ \E p \in Procs : check_user_quota(p)
    \/ \E p \in Procs, res \in Responses : get_image_from_url_as_bytes(p, res)
    \/ \E p \in Procs : check_image_size(p)
    \/ \E p \in Procs : update_image_cache(p)
    \/ \E p \in Procs : update_user_quota(p)
    \/ \E p \in Procs : insert_user_quota(p)
    \/ \E p \in Procs : Complete(p)
    \/ \E p \in Procs : Abort(p)
    \/ \E s \in SettingsChoices : UpdateSettings(s)
    \/ Tick

Spec == Init /\ [][Next]_vars

\* ------------------------------------------- one caller, one window

\* One authenticated user issues requests one after the other; every remote
\* image is a 400-byte jpeg and the clock stands still (one quota window).
SeqUrls == {"a", "b", "c"}
SeqResponse == [reachable |-> TRUE, content_type |-> Some("image/jpeg"), body |-> Some(400)]

SeqNext ==
    \/ \E u \in SeqUrls : get_image_by_url("p1", u, Some(1))
    \/ check_user_quota("p1")
    \/ get_image_from_url_as_bytes("p1", SeqResponse)
    \/ check_image_size("p1")
    \/ update_image_cache("p1")
    \/ update_user_quota("p1")
    \/ insert_user_quota("p1")
    \/ Complete("p1")

SeqSpec == Init /\ [][SeqNext]_vars

\* ------------------------------------------- three concurrent requests

\* Three tasks serve the same user and the same url; the service was started
\* under either configuration, which then stays as it is.
RaceInit ==
    /\ \E s \in SettingsChoices : new(s)
    /\ obj = None
    /\ calls = <<>>

RaceResponses ==
    [reachable : {TRUE}, content_type : {Some("image/png")}, body : {Some(400), Some(600)}]

RaceNext ==
    \/ \E p \in AllProcs : get_image_by_url(p, "a", Some(1))
    \/ \E p \in AllProcs : check_user_quota(p)
    \/ \E p \in AllProcs, res \in RaceResponses : get_image_from_url_as_bytes(p, res)
    \/ \E p \in AllProcs : check_image_size(p)
    \/ \E p \in AllProcs : update_image_cache(p)
    \/ \E p \in AllProcs : update_user_quota(p)
    \/ \E p \in AllProcs : insert_user_quota(p)
    \/ \E p \in AllProcs : Complete(p)

RaceSpec == RaceInit /\ [][RaceNext]_vars

\* ------------------------------------------- ImageCacheQuota on its own

\* One quota value, constructed at time 0 and charged directly.
QuotaMaxUsages == {0, 400, 1000}
QuotaPeriods == {1, 2}
Amounts == {400, 600}

QuotaInit ==
    /\ new(StartSettings)
    /\ \E m \in QuotaMaxUsages, per \in QuotaPeriods :
           obj = Some(ImageCacheQuota_new(m, per, 0))
    /\ calls = <<>>

\* obj.add_usage(amount) at the current time; the call is logged with the value
\* before and after it.
CallAddUsage(amount) ==
    /\ Len(calls) < MaxCalls
    /\ LET r == add_usage(Unwrap(obj), amount, now)
       IN  /\ obj' = Some(r.quota)
           /\ calls' = Append(calls, [amount |-> amount, t |-> now, before |-> Unwrap(obj),
                                      after |-> r.quota, res |-> r.res])
    /\ UNCHANGED <<shared, fetches, pc, url, opt_user, image_bytes, quota, charge,
                   sent, result>>

QuotaNext ==
    \/ \E amount \in Amounts : CallAddUsage(amount)
    \/ Tick

QuotaSpec == QuotaInit /\ [][QuotaNext]_vars

\* ------------------------------------------------ the cache driven directly

\* A cache constructed under either configuration; set and get are called on
\* it directly and every call is logged with what it returned.
CacheKeys == {"a", "b", "c"}
CacheSizes == {500, 600, 700}

CacheInit ==
    /\ \E s \in SettingsChoices : new(s)
    /\ obj = None
    /\ calls = <<>>

\* image_cache.set(key, bytes)
CacheSet(key, bytes) ==
    /\ Len(calls) < MaxCalls
    /\ LET s == cache_set(image_cache, key, bytes)
       IN  /\ image_cache' = s.cache
           /\ calls' = Append(calls, [op |-> "set", key |-> key, bytes |-> Some(bytes),
                                      ok |-> s.ok])
    /\ UNCHANGED <<user_quotas, settings, reqwest_client, settings_writer, now, obj, fetches,
                   pc, url,
                   opt_user, image_bytes, quota, charge, sent, result>>

\* image_cache.get(key)
CacheGet(key) ==
    /\ Len(calls) < MaxCalls
    /\ LET entry == cache_get(image_cache, key)
       IN  calls' = Append(calls, [op |-> "get", key |-> key, bytes |-> entry,
                                   ok |-> entry # None])
    /\ UNCHANGED <<shared, obj, fetches, pc, url, opt_user, image_bytes, quota, charge,
                   sent, result>>

CacheNext ==
    \/ \E key \in CacheKeys, bytes \in CacheSizes : CacheSet(key, bytes)
    \/ \E key \in CacheKeys : CacheGet(key)

CacheSpec == CacheInit /\ [][CacheNext]_vars

\* ------------------------------------------------- a burst of requests

\* Each of three tasks makes one request for user 1, for a url of its own, so
\* that every request is a miss whether or not the requests overlap; the
\* results stay with the tasks.
BurstUrl(p) == CASE p = "p1" -> "a" [] p = "p2" -> "b" [] OTHER -> "c"

BurstNext ==
    \/ \E p \in AllProcs : get_image_by_url(p, BurstUrl(p), Some(1))
    \/ \E p \in AllProcs : check_user_quota(p)
    \/ \E p \in AllProcs, res \in RaceResponses : get_image_from_url_as_bytes(p, res)
    \/ \E p \in AllProcs : check_image_size(p)
    \/ \E p \in AllProcs : update_image_cache(p)
    \/ \E p \in AllProcs : update_user_quota(p)
    \/ \E p \in AllProcs : insert_user_quota(p)

BurstSpec == RaceInit /\ [][BurstNext]_vars

\* ------------------------------------------------- requests under fairness

\* The client's timeout (lines 89-92) elapses: send() fails and the request
\* ends with UrlIsUnreachable (line 142).  Used once MaxFetches responses have
\* been delivered, so that a waiting request is always answered.
TimedOut(p) ==
    /\ pc[p] = "get_image_from_url_as_bytes"
    /\ fetches = MaxFetches
    /\ sent' = [sent EXCEPT ![p] = @ + 1]
    /\ Return(p, Err("UrlIsUnreachable"))
    /\ UNCHANGED <<shared, direct, fetches, url, opt_user, charge>>

\* The steps of the request that task p is running.
Step(p) ==
    \/ check_user_quota(p)
    \/ \E res \in Responses : get_image_from_url_as_bytes(p, res)
    \/ TimedOut(p)
    \/ check_image_size(p)
    \/ update_image_cache(p)
    \/ update_user_quota(p)
    \/ insert_user_quota(p)

LiveNext ==
    \/ \E p \in Procs, u \in Urls, user \in {None} \cup {Some(i) : i \in UserIds} :
           get_image_by_url(p, u, user)
    \/ \E p \in Procs : Step(p)
    \/ \E p \in Procs : Complete(p)
    \/ \E s \in SettingsChoices : RequestSettingsWrite(s)
    \/ GrantSettingsWrite

\* Every running request is scheduled again and again, and a lock that is
\* free is granted; tokio's RwLock serves its waiters first-in first-out, so
\* a request that can take the settings read lock again and again does take
\* it.  Callers and the administrator are free to do nothing.
LiveSpec ==
    /\ Init
    /\ [][LiveNext]_vars
    /\ \A p \in Procs : SF_vars(Step(p))
    /\ WF_vars(GrantSettingsWrite)

\* --------------------------------------------------- two users, one request each

\* Each of two tasks makes one request, for either user or for nobody, and
\* keeps its result; the clock runs and the settings change meanwhile.
LazyNext ==
    \/ \E p \in Procs, u \in Urls, user \in {None} \cup {Some(i) : i \in AllUserIds} :
           get_image_by_url(p, u, user)
    \/ \E p \in Procs : check_user_quota(p)
    \/ \E p \in Procs, res \in Responses : get_image_from_url_as_bytes(p, res)
    \/ \E p \in Procs : check_image_size(p)
    \/ \E p \in Procs : update_image_cache(p)
    \/ \E p \in Procs : update_user_quota(p)
    \/ \E p \in Procs : insert_user_quota(p)
    \/ \E s \in SettingsChoices : UpdateSettings(s)
    \/ Tick

LazySpec == Init /\ [][LazyNext]_vars

\* ------------------------------------------------------------------ claims

Hit(p) == pc[p] = "done" /\ result[p].kind = "Ok" /\ result[p].at = "idle"
Record(u) == Unwrap(user_quotas[u])

\* C1: a request whose url is in the cache at the probe returns the cached
\* payload, whether or not a caller identity is given and whatever the
\* caller's quota record says; it issues no outbound GET and changes neither
\* the cache nor the quota registry.
C1_CacheHitBypass ==
    [][\A p \in AllProcs :
          (/\ pc[p] = "idle"
           /\ pc'[p] # "idle"
           /\ cache_get(image_cache, Unwrap(url'[p])) # None)
          => /\ pc'[p] = "done"
             /\ result'[p].kind = "Ok"
             /\ result'[p].bytes = cache_get(image_cache, Unwrap(url'[p]))
             /\ sent'[p] = 0
             /\ fetches' = fetches
             /\ image_cache' = image_cache
             /\ user_quotas' = user_quotas]_vars

\* A hit by an unauthenticated caller next to a hit by a user whose quota is reached.
C1_Witness ==
    \E p, r \in Procs :
        /\ Hit(p) /\ opt_user[p] = None
        /\ Hit(r) /\ opt_user[r] # None
        /\ user_quotas[Unwrap(opt_user[r])] # None
        /\ Record(Unwrap(opt_user[r])).usage >= Record(Unwrap(opt_user[r])).max_usage

\* C2: a request without caller identity whose url is not in the cache at the
\* probe fails with Unauthenticated; from its start to its return it issues no
\* outbound GET and changes neither the cache nor the quota registry.
C2_UnauthenticatedMiss ==
    /\ [](\A p \in AllProcs : result[p].kind = "Unauthenticated" => sent[p] = 0)
    /\ [][\A p \in AllProcs :
             (/\ pc[p] = "idle"
              /\ pc'[p] # "idle"
              /\ opt_user'[p] = None
              /\ cache_get(image_cache, Unwrap(url'[p])) = None)
             => /\ pc'[p] = "done"
                /\ result'[p].kind = "Unauthenticated"
                /\ sent'[p] = 0
                /\ fetches' = fetches
                /\ image_cache' = image_cache
                /\ user_quotas' = user_quotas]_vars

C2_Witness ==
    \E p \in Procs :
        /\ pc[p] = "done" /\ result[p].kind = "Unauthenticated"
        /\ cache_get(image_cache, Unwrap(url[p])) = None

\* C3: on a cache miss by an authenticated caller whose quota record exists
\* with usage >= max_usage when the pre-check runs, the request fails with
\* UserQuotaMet and issues no outbound GET; a caller without a quota record
\* passes the pre-check.
C3_QuotaPreCheck ==
    /\ [](\A p \in AllProcs : result[p].kind = "UserQuotaMet" => sent[p] = 0)
    /\ [][\A p \in AllProcs :
             (pc[p] = "check_user_quota" /\ pc'[p] # "check_user_quota")
             => LET q == user_quotas[Unwrap(opt_user[p])]
                IN  /\ (q # None /\ Unwrap(q).usage >= Unwrap(q).max_usage)
                       => /\ pc'[p] = "done"
                          /\ result'[p].kind = "UserQuotaMet"
                          /\ sent'[p] = 0
                          /\ fetches' = fetches
                    /\ q = None => pc'[p] = "get_image_from_url_as_bytes"]_vars

\* A request rejected by the pre-check at usage = max_usage exactly.
C3_Witness ==
    \E p \in Procs :
        /\ pc[p] = "done" /\ result[p].kind = "UserQuotaMet"
        /\ Record(Unwrap(opt_user[p])).usage = Record(Unwrap(opt_user[p])).max_usage

\* C4 as stated: every stored quota record has usage <= max_usage.
C4_Original ==
    \A u \in UserIds : user_quotas[u] # None => Record(u).usage <= Record(u).max_usage

\* The largest entry-size-limit that settings can hold.
LargestEntrySizeLimit ==
    CHOOSE n \in {s.entry_size_limit : s \in SettingsChoices} :
        \A s \in SettingsChoices : s.entry_size_limit <= n

\* C4, amended: every stored quota record has usage < max_usage + E, where E
\* is the largest entry-size-limit in force when a payload passed the size
\* validation: usage exceeds max_usage by less than one admitted payload.
C4_QuotaBound ==
    \A u \in UserIds :
        user_quotas[u] # None
        => Record(u).usage < Record(u).max_usage + LargestEntrySizeLimit

\* A stored record above its budget.
C4_Witness ==
    \E u \in UserIds : user_quotas[u] # None /\ Record(u).usage > Record(u).max_usage

\* A request of p1 that went through the miss path and has just returned its payload.
Served == pc["p1"] = "done" /\ result["p1"].kind = "Ok" /\ result["p1"].at = "insert_user_quota"

\* C5 as stated: with max_usage 1000 and three 400-byte cache-miss fetches in
\* one window, the charges leave usage 400, 800 and, the third one failing,
\* 800 again, while the third request still returns its payload.
C5_Original ==
    Served =>
        /\ result["p1"].bytes = Some(400)
        /\ fetches = 1 => (Record(1).usage = 400 /\ charge["p1"] = "Ok")
        /\ fetches = 2 => (Record(1).usage = 800 /\ charge["p1"] = "Ok")
        /\ fetches = 3 => (Record(1).usage = 800 /\ charge["p1"] = "Err")

\* C5, amended: the three charges all succeed and leave usage 400, 800 and
\* 1200, and each request returns its payload; a charge made at
\* usage < max_usage succeeds and adds its amount even when
\* usage + amount > max_usage, and only after that is the user refused (by the
\* pre-check, usage staying 1200).
C5_ThreeCharges ==
    /\ Served =>
           /\ result["p1"].bytes = Some(400)
           /\ charge["p1"] = "Ok"
           /\ Record(1).max_usage = 1000
           /\ fetches = 1 => Record(1).usage = 400
           /\ fetches = 2 => Record(1).usage = 800
           /\ fetches = 3 => Record(1).usage = 1200
    /\ result["p1"].kind = "UserQuotaMet" => (fetches = 3 /\ Record(1).usage = 1200)
    /\ fetches <= 3

\* The third fetch has returned its payload.
C5_Witness == Served /\ fetches = 3 /\ Record(1).usage = 1200

\* The call found the window expired, and reset it.
DidReset(c) == c.t - c.before.date_start_secs > c.before.period_secs

RECURSIVE SumAmounts(_, _)
SumAmounts(i, j) == IF i > j THEN 0 ELSE calls[i].amount + SumAmounts(i + 1, j)

\* Calls i..j are the first j-i+1 charges of one window.
OneWindow(i, j) ==
    /\ i <= j
    /\ (IF DidReset(calls[i]) THEN 0 ELSE calls[i].before.usage) = 0
    /\ \A k \in (i + 1)..j : ~DidReset(calls[k])

\* C6: within one window, charges of positive amounts that sum to exactly
\* max_usage all succeed and leave usage = max_usage; every charge made at
\* usage >= max_usage in an unexpired window returns an error and leaves usage
\* and window start unchanged.
C6_ChargeAtLimit ==
    /\ \A i, j \in 1..Len(calls) :
           (OneWindow(i, j) /\ SumAmounts(i, j) = calls[i].before.max_usage)
           => /\ \A k \in i..j : calls[k].res = "Ok"
              /\ calls[j].after.usage = calls[j].after.max_usage
    /\ \A k \in 1..Len(calls) :
           (~DidReset(calls[k]) /\ calls[k].before.usage >= calls[k].before.max_usage)
           => /\ calls[k].res = "Err"
              /\ calls[k].after = calls[k].before

\* Two charges reached max_usage exactly and the next charge in the window failed.
C6_Witness ==
    \E i, j \in 1..Len(calls) :
        /\ i < j /\ j < Len(calls)
        /\ OneWindow(i, j) /\ SumAmounts(i, j) = calls[i].before.max_usage
        /\ ~DidReset(calls[j + 1]) /\ calls[j + 1].res = "Err"

\* C7: a charge made when now - window_start > period sets usage to 0 and
\* window_start to now before applying its amount, so (for max_usage > 0) it
\* succeeds and leaves usage = amount whatever the usage was; a charge made
\* when now - window_start <= period resets nothing.
C7_WindowReset ==
    \A k \in 1..Len(calls) :
        LET c == calls[k]
        IN  /\ (c.t - c.before.date_start_secs > c.before.period_secs /\ c.before.max_usage > 0)
               => /\ c.res = "Ok"
                  /\ c.after.usage = c.amount
                  /\ c.after.date_start_secs = c.t
            /\ c.t - c.before.date_start_secs <= c.before.period_secs
               => /\ c.after.date_start_secs = c.before.date_start_secs
                  /\ c.after.usage \in {c.before.usage, c.before.usage + c.amount}

\* A charge after the window expired, made on a quota that was reached.
C7_Witness ==
    \E k \in 1..Len(calls) :
        /\ DidReset(calls[k])
        /\ calls[k].before.max_usage > 0
        /\ calls[k].before.usage >= calls[k].before.max_usage
        /\ calls[k].res = "Ok"

\* C8 as stated: once the window of a reached quota record has elapsed
\* (now - window_start > period), a cache-miss request of that user is no
\* longer rejected by the pre-check.
C8_QuotaRecovers ==
    [][\A p \in AllProcs :
          (/\ pc[p] = "check_user_quota"
           /\ pc'[p] # "check_user_quota"
           /\ user_quotas[Unwrap(opt_user[p])] # None
           /\ now - Record(Unwrap(opt_user[p])).date_start_secs
                  > Record(Unwrap(opt_user[p])).period_secs)
          => result'[p].kind # "UserQuotaMet"]_vars

\* The request is about to write a payload the cache will refuse, after its
\* fetch and both validations succeeded.
CacheWriteFails(p) ==
    /\ pc[p] = "update_image_cache"
    /\ Unwrap(image_bytes[p]) > image_cache.entry_size_limit

\* C9 as stated: when the cache write fails, the request still goes on to the
\* quota charge (and returns the payload).
C9_Original ==
    [][\A p \in AllProcs :
          (CacheWriteFails(p) /\ pc'[p] # "update_image_cache")
          => pc'[p] = "update_user_quota"]_vars

\* C9, amended: when the cache write fails, the request fails with ImageTooBig;
\* the quota charge is not performed and neither the cache nor the quota
\* registry changes.
C9_CacheWriteFailure ==
    /\ [](\A p \in AllProcs :
             result[p].at = "update_image_cache"
             => (result[p].kind = "ImageTooBig" /\ charge[p] = "None"))
    /\ [][\A p \in AllProcs :
             (CacheWriteFails(p) /\ pc'[p] # "update_image_cache")
             => /\ pc'[p] = "done"
                /\ result'[p].kind = "ImageTooBig"
                /\ result'[p].at = "update_image_cache"
                /\ charge'[p] = "None"
                /\ user_quotas' = user_quotas
                /\ image_cache' = image_cache]_vars

\* A request that failed in the cache write.
C9_Witness ==
    \E p \in Procs :
        /\ pc[p] = "done" /\ result[p].at = "update_image_cache"
        /\ sent[p] = 1

\* C10 as stated: a request whose charge fails at charge time still returns
\* its payload, its cache entry is left alone, and the stored usage is not
\* increased by it.
C10_ChargeFailureSwallowed ==
    [][\A p \in AllProcs :
          (pc[p] = "insert_user_quota" /\ pc'[p] # "insert_user_quota" /\ charge[p] = "Err")
          => /\ pc'[p] = "done"
             /\ result'[p].kind = "Ok"
             /\ result'[p].bytes = image_bytes[p]
             /\ image_cache' = image_cache
             /\ user_quotas[Unwrap(opt_user[p])] # None
             /\ user_quotas'[Unwrap(opt_user[p])][1].usage
                    <= user_quotas[Unwrap(opt_user[p])][1].usage]_vars

\* C11 as stated: after a settings change every later call follows the new
\* values: the cache works with the live capacity and entry-size limit and
\* the HTTP client with the live timeout, the pre-check rejects exactly when
\* the stored usage has reached the live quota size, and every charge is made
\* against the live quota size and period, also for a user who already has a
\* record.
C11_Original ==
    /\ [](/\ image_cache.total_capacity = settings.capacity
          /\ image_cache.entry_size_limit = settings.entry_size_limit
          /\ reqwest_client.timeout_ms = settings.max_request_timeout_ms)
    /\ [][\A p \in AllProcs :
          /\ (pc[p] = "check_user_quota" /\ pc'[p] # "check_user_quota")
             => (pc'[p] = "done"
                    <=> /\ user_quotas[Unwrap(opt_user[p])] # None
                        /\ Record(Unwrap(opt_user[p])).usage >= settings.user_quota_bytes)
          /\ (pc[p] = "update_user_quota" /\ pc'[p] # "update_user_quota")
             => /\ Unwrap(quota'[p]).max_usage = settings.user_quota_bytes
                /\ Unwrap(quota'[p]).period_secs = settings.user_quota_period_seconds]_vars

\* C11, amended: only two reads are live.  The size validation uses the
\* entry-size limit current at the call, and a record created for a user
\* without one takes the quota size and period current at its creation.  The
\* cache keeps the capacity and entry-size limit, and the HTTP client the
\* timeout, that the service was constructed with; a stored record keeps its
\* own max_usage and period through every later charge, and the pre-check
\* compares the stored usage with the record's own max_usage.
C11_LiveConfiguration ==
    /\ [](/\ image_cache.total_capacity = StartSettings.capacity
          /\ image_cache.entry_size_limit = StartSettings.entry_size_limit
          /\ reqwest_client.timeout_ms = StartSettings.max_request_timeout_ms)
    /\ [][\A p \in AllProcs :
             /\ (pc[p] = "check_image_size" /\ pc'[p] # "check_image_size")
                => (pc'[p] = "update_image_cache"
                       <=> Unwrap(image_bytes[p]) <= settings.entry_size_limit)
             /\ (pc[p] = "check_user_quota" /\ pc'[p] # "check_user_quota")
                => (pc'[p] = "done"
                       <=> /\ user_quotas[Unwrap(opt_user[p])] # None
                           /\ Record(Unwrap(opt_user[p])).usage
                                  >= Record(Unwrap(opt_user[p])).max_usage)
             /\ (pc[p] = "update_user_quota" /\ pc'[p] # "update_user_quota")
                => LET stored == user_quotas[Unwrap(opt_user[p])]
                       q == Unwrap(quota'[p])
                   IN  IF stored = None
                       THEN /\ q.max_usage = settings.user_quota_bytes
                            /\ q.period_secs = settings.user_quota_period_seconds
                       ELSE /\ q.max_usage = Unwrap(stored).max_usage
                            /\ q.period_secs = Unwrap(stored).period_secs]_vars

\* After a settings change, a request of a user with a record has made its
\* charge against the record's old max_usage and period.
C11_Witness ==
    \E p \in Procs :
        /\ pc[p] = "insert_user_quota"
        /\ settings = OtherSettings
        /\ user_quotas[Unwrap(opt_user[p])] # None
        /\ Unwrap(quota[p]).max_usage = StartSettings.user_quota_bytes
        /\ Unwrap(quota[p]).period_secs = StartSettings.user_quota_period_seconds
        /\ image_cache.entry_size_limit # settings.entry_size_limit

\* C12: when the cache write of a miss-path request succeeds, the cache maps
\* the request's url to exactly the fetched payload; the cache changes only
\* by such a write, so the mapping stays until another insertion; and a
\* get_image for a url the cache maps to a payload returns exactly that
\* payload as a hit, without a fetch, whoever the caller is.
C12_MissThenHit ==
    [][/\ \A p \in AllProcs :
             /\ (pc[p] = "update_image_cache" /\ pc'[p] = "update_user_quota")
                => cache_get(image_cache', Unwrap(url[p])) = image_bytes[p]
             /\ (/\ pc[p] = "idle" /\ pc'[p] # "idle"
                 /\ cache_get(image_cache, Unwrap(url'[p])) # None)
                => /\ pc'[p] = "done"
                   /\ result'[p] = [kind |-> "Ok", at |-> "idle",
                                    bytes |-> cache_get(image_cache, Unwrap(url'[p]))]
                   /\ sent'[p] = 0
                   /\ fetches' = fetches
       /\ image_cache' # image_cache
          => \E p \in AllProcs : pc[p] = "update_image_cache" /\ pc'[p] = "update_user_quota"]_vars

\* One request was served through the miss path and an unauthenticated
\* request for the same url got the same payload as a hit.
C12_Witness ==
    \E p, r \in Procs :
        /\ p # r
        /\ pc[p] = "done" /\ result[p].kind = "Ok" /\ result[p].at = "insert_user_quota"
        /\ Hit(r) /\ opt_user[r] = None
        /\ url[r] = url[p]
        /\ result[r].bytes = result[p].bytes
        /\ sent[p] = 1 /\ sent[r] = 0

\* The entries of the cache, and the last logged call.
Entries == image_cache.entries
LastCall == calls'[Len(calls')]
IsCall(op) == Len(calls') = Len(calls) + 1 /\ LastCall.op = op

\* The sizes of entries i..j added up by position.
RECURSIVE SizeFrom(_, _, _)
SizeFrom(es, i, j) == IF i > j THEN 0 ELSE es[i].bytes + SizeFrom(es, i + 1, j)

\* C13: in every state of the cache, after any sequence of inserts and
\* lookups, no two entries have the same key, the total size is the sum of
\* the entry sizes and at most the capacity, and every entry is at most the
\* entry-size limit.
C13_CacheSizeInvariant ==
    /\ \A i, j \in 1..Len(Entries) : Entries[i].key = Entries[j].key => i = j
    /\ total_size(image_cache) = SizeFrom(Entries, 1, Len(Entries))
    /\ total_size(image_cache) <= image_cache.total_capacity
    /\ \A i \in 1..Len(Entries) : Entries[i].bytes <= image_cache.entry_size_limit

\* A full cache in which a key was inserted again.
C13_Witness ==
    /\ total_size(image_cache) = image_cache.total_capacity
    /\ Len(Entries) = 2
    /\ \E i, j \in 1..Len(calls) :
           /\ i < j
           /\ calls[i].op = "set" /\ calls[j].op = "set"
           /\ calls[i].ok /\ calls[j].ok
           /\ calls[i].key = calls[j].key

\* The entries stored under other keys than key, oldest first.
Others(key) == SelectSeq(Entries, LAMBDA e : e.key # key)

\* C14: a successful insert removes the entry stored under its key, then
\* removes the oldest of the other entries, only as many as are needed for
\* the new payload to fit the capacity, and puts the new entry in the newest
\* position; a lookup leaves the cache as it is.  With capacity 1000 and
\* entry-size limit 600, after inserting a (500 bytes) and then b (600 bytes)
\* both inserts have succeeded, a lookup of a misses and a lookup of b hits.
C14_FifoEviction ==
    /\ [][/\ (IsCall("set") /\ LastCall.ok)
             => LET rest == Others(LastCall.key)
                    size == Unwrap(LastCall.bytes)
                    n == Len(rest)
                IN  \E k \in 0..n :
                        /\ image_cache'.entries
                              = Append(SubSeq(rest, k + 1, n),
                                       [key |-> LastCall.key, bytes |-> size])
                        /\ SizeFrom(rest, k + 1, n) + size <= image_cache.total_capacity
                        /\ k > 0 => SizeFrom(rest, k, n) + size > image_cache.total_capacity
          /\ IsCall("get") => image_cache' = image_cache]_vars
    /\ []((/\ image_cache.total_capacity = 1000
           /\ image_cache.entry_size_limit = 600
           /\ Len(calls) >= 2
           /\ calls[1] = [op |-> "set", key |-> "a", bytes |-> Some(500), ok |-> calls[1].ok]
           /\ calls[2] = [op |-> "set", key |-> "b", bytes |-> Some(600), ok |-> calls[2].ok]
           /\ \A i \in 3..Len(calls) : calls[i].op = "get")
          => /\ calls[1].ok /\ calls[2].ok
             /\ \A i \in 3..Len(calls) :
                    /\ calls[i].key = "a" => calls[i].bytes = None
                    /\ calls[i].key = "b" => calls[i].bytes = Some(600))

\* The example has run: a and b were inserted, a lookup of a missed and a
\* lookup of b hit.
C14_Witness ==
    /\ image_cache.total_capacity = 1000
    /\ calls = << [op |-> "set", key |-> "a", bytes |-> Some(500), ok |-> TRUE],
                  [op |-> "set", key |-> "b", bytes |-> Some(600), ok |-> TRUE],
                  [op |-> "get", key |-> "a", bytes |-> None, ok |-> FALSE],
                  [op |-> "get", key |-> "b", bytes |-> Some(600), ok |-> TRUE] >>

\* C15: an insert of a payload larger than the entry-size limit fails and
\* leaves the entries, their order and the total size as they were; every
\* lookup returns after it what it returned before.
C15_OversizedInsertRejected ==
    [][(IsCall("set") /\ Unwrap(LastCall.bytes) > image_cache.entry_size_limit)
          => /\ ~LastCall.ok
             /\ image_cache'.entries = image_cache.entries
             /\ total_size(image_cache') = total_size(image_cache)
             /\ \A key \in CacheKeys :
                    cache_get(image_cache', key) = cache_get(image_cache, key)]_vars

\* A lookup hit, an oversized insert under another key failed, and the same
\* lookup hit again with the same payload.
C15_Witness ==
    /\ Len(calls) = 4
    /\ calls[2].op = "get" /\ calls[2].ok
    /\ calls[3].op = "set" /\ ~calls[3].ok
    /\ Unwrap(calls[3].bytes) > image_cache.entry_size_limit
    /\ calls[4] = calls[2]
    /\ total_size(image_cache) + Unwrap(calls[3].bytes) > image_cache.total_capacity

\* The positions of a request up to and including its size validation.
BeforeValidated == {"idle", "check_user_quota", "get_image_from_url_as_bytes", "check_image_size"}

\* C16: a request that ends in Unauthenticated, UserQuotaMet,
\* UrlIsUnreachable, UrlIsNotAnImage or the ImageTooBig of the size
\* validation, or that is aborted during its fetch, has been stopped at or
\* before the size validation, and no step a request takes up to and
\* including the size validation (the abort among them) changes the cache or
\* the quota registry.
C16_NoMutationBeforeValidatedFetch ==
    /\ [](\A p \in AllProcs :
             (/\ pc[p] = "done"
              /\ \/ result[p].kind \in {"Unauthenticated", "UserQuotaMet",
                                        "UrlIsUnreachable", "UrlIsNotAnImage"}
                 \/ result[p].kind = "ImageTooBig" /\ result[p].at = "check_image_size")
             => /\ result[p].at \in BeforeValidated
                /\ charge[p] = "None")
    /\ [][\A p \in AllProcs :
             (pc[p] \in BeforeValidated /\ pc'[p] # pc[p])
             => /\ image_cache' = image_cache
                /\ user_quotas' = user_quotas]_vars

\* With entries in the cache and a record in the registry, one request was
\* stopped by the size validation and another waits for its response, where
\* it can be aborted.
C16_Witness ==
    \E p, r \in Procs :
        /\ pc[p] = "done" /\ result[p].kind = "ImageTooBig" /\ result[p].at = "check_image_size"
        /\ pc[r] = "get_image_from_url_as_bytes"
        /\ image_cache.entries # <<>>
        /\ user_quotas[1] # None

\* The step that follows each position of a request that is not stopped.
NextStep(at) ==
    CASE at = "idle" -> "check_user_quota"
      [] at = "check_user_quota" -> "get_image_from_url_as_bytes"
      [] at = "get_image_from_url_as_bytes" -> "check_image_size"
      [] at = "check_image_size" -> "update_image_cache"
      [] at = "update_image_cache" -> "update_user_quota"
      [] at = "update_user_quota" -> "insert_user_quota"
      [] OTHER -> "done"

\* The outcomes each step can return.
Outcomes(at) ==
    CASE at = "idle" -> {"Ok", "Unauthenticated"}
      [] at = "check_user_quota" -> {"UserQuotaMet"}
      [] at = "get_image_from_url_as_bytes" -> {"UrlIsUnreachable", "UrlIsNotAnImage"}
      [] at = "check_image_size" -> {"ImageTooBig"}
      [] at = "update_image_cache" -> {"ImageTooBig"}
      [] at = "insert_user_quota" -> {"Ok"}
      [] OTHER -> {}

\* C17: a request takes its steps in the order probe, gate, pre-check, fetch
\* with content-type validation, size validation, cache write, charge, and
\* returns at the first step that fails, with that step's error.  So an
\* unauthenticated miss and a request of a user over budget end without a
\* GET, whatever the url would have answered; a response without an image
\* content type gives UrlIsNotAnImage whatever the size of its body; the
\* cache is written before the charge is made; and a request sends at most
\* one GET.
C17_StepOrder ==
    /\ [](/\ \A p \in AllProcs :
                /\ sent[p] <= 1
                /\ pc[p] = "done" => result[p].kind \in Outcomes(result[p].at)
                /\ (pc[p] = "done" /\ result[p].kind \in {"Unauthenticated", "UserQuotaMet"})
                   => sent[p] = 0
                /\ (pc[p] = "done" /\ result[p].kind = "UrlIsNotAnImage")
                   => sent[p] = 1 /\ image_bytes[p] = None
                /\ sent[p] = 0
                   <=> (pc[p] \in {"idle", "check_user_quota", "get_image_from_url_as_bytes"}
                        \/ (pc[p] = "done" /\ result[p].at \in {"idle", "check_user_quota"}))
          /\ \A res \in Responses :
                (/\ res.reachable
                 /\ res.content_type \notin {Some("image/jpeg"), Some("image/png")})
                => response_bytes(res) = Err("UrlIsNotAnImage"))
    /\ [][\A p \in AllProcs :
             /\ pc'[p] # pc[p]
                => \/ pc'[p] = NextStep(pc[p])
                   \/ pc'[p] = "done" /\ result'[p].at = pc[p]
                   \/ pc'[p] = "idle" /\ pc[p] \in {"done", "get_image_from_url_as_bytes"}
             /\ (pc[p] = "update_image_cache" /\ pc'[p] = "update_user_quota")
                => /\ cache_get(image_cache', Unwrap(url[p])) = image_bytes[p]
                   /\ charge[p] = "None"
                   /\ user_quotas' = user_quotas]_vars

\* One request was stopped by the pre-check without a GET, another by the
\* content type of the response to its one GET.
C17_Witness ==
    \E p, r \in Procs :
        /\ pc[p] = "done" /\ result[p].kind = "UserQuotaMet" /\ sent[p] = 0
        /\ pc[r] = "done" /\ result[r].kind = "UrlIsNotAnImage" /\ sent[r] = 1
        /\ \E res \in Responses :
               /\ res.reachable /\ res.content_type = Some("text/html")
               /\ res.body # None
               /\ Unwrap(res.body) > settings.entry_size_limit

\* The requests started so far, and whether every payload fetched so far has
\* size s.
Started == {p \in AllProcs : pc[p] # "idle"}
SameSize(s) ==
    \A p \in AllProcs :
        /\ image_bytes[p] \in {None, Some(s)}
        /\ result[p].bytes \in {None, Some(s)}

\* C18 as stated: with N requests of one user, each fetching a payload of the
\* same size, the stored usage is at most max_usage + (N - 1) * size; with
\* N = 1 it is at most max_usage.
C18_Original ==
    \A s \in {400, 600} :
        (SameSize(s) /\ user_quotas[1] # None)
        => Record(1).usage <= Record(1).max_usage + (Cardinality(Started) - 1) * s

\* C18, amended: with N requests of one user, each fetching a payload of the
\* same size, the stored usage stays below max_usage + size, whatever N is and
\* whether or not the requests overlap; with N = 1 it can exceed max_usage,
\* by less than one payload.
C18_OvershootBound ==
    \A s \in {400, 600} :
        (SameSize(s) /\ user_quotas[1] # None)
        => Record(1).usage < Record(1).max_usage + s

\* Three overlapping requests of 600 bytes were all served under a quota of
\* 400 bytes.
C18_Witness ==
    /\ \A p \in AllProcs :
           /\ pc[p] = "done"
           /\ result[p] = [kind |-> "Ok", bytes |-> Some(600), at |-> "insert_user_quota"]
    /\ Record(1).max_usage = 400
    /\ Record(1).usage = 600

\* The tasks whose charge succeeded and has been stored, and the bytes they
\* charged.
Charged == {p \in AllProcs : pc[p] = "done" /\ result[p].at = "insert_user_quota"
                                            /\ charge[p] = "Ok"}
RECURSIVE ChargedBytes(_)
ChargedBytes(ps) ==
    IF ps = {} THEN 0
    ELSE LET p == CHOOSE x \in ps : TRUE
         IN  Unwrap(result[p].bytes) + ChargedBytes(ps \ {p})

\* C19 as stated: inside one quota window, once no charge of the user is in
\* progress, the stored usage is the sum of the payload sizes of all of the
\* user's requests whose charge succeeded.
C19_NoLostQuotaUpdates ==
    (/\ user_quotas[1] # None
     /\ \A p \in AllProcs : pc[p] \in {"idle", "done"})
    => Record(1).usage = ChargedBytes(Charged)

\* What get_image_by_url can return: a payload or one of the five errors.
Returned(p) ==
    /\ pc[p] = "done"
    /\ result[p].kind \in {"Ok", "Unauthenticated", "UserQuotaMet", "UrlIsUnreachable",
                           "UrlIsNotAnImage", "ImageTooBig"}

\* C20: under fair scheduling, with every fetch answered or timed out, every
\* request that was started returns a payload or one of the five errors,
\* whatever the other task and the administrator do meanwhile.
C20_EveryRequestCompletes ==
    \A p \in Procs : (pc[p] # "idle") ~> Returned(p)

\* Both tasks have returned after the settings were changed: one was served
\* through the miss path, the other's fetch timed out.
C20_Witness ==
    \E p, r \in Procs :
        /\ Returned(p) /\ result[p].at = "insert_user_quota"
        /\ Returned(r) /\ result[r].kind = "UrlIsUnreachable"
        /\ fetches = MaxFetches
        /\ settings = OtherSettings

\* The requests of user u that have run the charge step to its end.
ChargedFor(u) ==
    {p \in AllProcs : /\ pc[p] = "done" /\ result[p].at = "insert_user_quota"
                      /\ opt_user[p] = Some(u)}

\* C21: the registry holds a record for user u exactly when a request of u
\* has run the charge step, which only an authenticated miss that passed the
\* pre-check, the fetch, the validations and the cache write does; a record
\* made for a user without one starts with usage 0, window start now and the
\* quota size and period of the settings current at that moment, and its
\* first charge is applied to that; a record that is present stays present,
\* so the set of users in the registry only grows.
C21_LazyPermanentRecords ==
    /\ [](\A u \in AllUserIds :
             /\ user_quotas[u] # None <=> ChargedFor(u) # {}
             /\ \A p \in ChargedFor(u) : sent[p] = 1 /\ result[p].kind = "Ok")
    /\ [][/\ \A u \in AllUserIds :
                /\ user_quotas[u] # None => user_quotas'[u] # None
                /\ user_quotas'[u] # user_quotas[u]
                   => \E p \in AllProcs : /\ pc[p] = "insert_user_quota" /\ pc'[p] = "done"
                                          /\ opt_user[p] = Some(u)
          /\ \A p \in AllProcs :
                (/\ pc[p] = "update_user_quota" /\ pc'[p] = "insert_user_quota"
                 /\ user_quotas[Unwrap(opt_user[p])] = None)
                => LET fresh == [usage |-> 0, max_usage |-> settings.user_quota_bytes,
                                 date_start_secs |-> now,
                                 period_secs |-> settings.user_quota_period_seconds]
                   IN  /\ ~is_reached(fresh)
                       /\ quota'[p] = Some([fresh EXCEPT !.usage = Unwrap(image_bytes[p])])
                       /\ charge'[p] = "Ok"]_vars

\* After the settings changed and time passed, user 2 got a record made
\* under the new settings at that time, while user 1 keeps an older one.
C21_Witness ==
    /\ user_quotas[1] # None /\ user_quotas[2] # None
    /\ Record(1).max_usage = StartSettings.user_quota_bytes
    /\ Record(1).date_start_secs = 0
    /\ Record(2).max_usage = OtherSettings.user_quota_bytes
    /\ Record(2).date_start_secs > 0
    /\ ChargedFor(1) # {} /\ ChargedFor(2) # {}

====
